---- MODULE Spec2Model ----
(***************************************************************************)
(* EMSCEditor (orangecontrib/spectroscopy/widgets/preprocessors/emsc.py):  *)
(* the parameter editor of the EMSC preprocessing step.  The editor is a   *)
(* form (order, scaling, output_model, a container of range widgets, a     *)
(* reference, preview data) whose handlers run one at a time on the GUI    *)
(* thread.  One action per handler.  Python numbers are modelled by        *)
(* integers compared by value (in Python 1 == 1.0), so float(x) keeps x.   *)
(***************************************************************************)
EXTENDS Integers, Sequences, FiniteSets, TLC

VARIABLES
    order,          \* self.order
    scaling,        \* self.scaling
    output_model,   \* self.output_model
    reference,      \* self.reference
    preview_data,   \* self.preview_data
    user_changed,   \* self.user_changed
    ranges,         \* widgets of self.ranges_box.layout(), in layout order
    button_text,    \* self.range_button.text()
    reference_info, \* self.reference_info.text()
    curve_visible,  \* self.reference_curve.isVisible()
    markings,       \* self.parent_widget.curveplot.markings
    stored,         \* the params mapping the host keeps for this step
    op,             \* the handler that ran last
    arg,            \* its params argument
    outcome,        \* "ok", or "error" when it raised
    ret,            \* what it returned
    emitted         \* how many times it emitted self.edited

vars == <<order, scaling, output_model, reference, preview_data, user_changed,
          ranges, button_text, reference_info, curve_visible, markings,
          stored, op, arg, outcome, ret, emitted>>

editor == <<order, scaling, output_model, reference, preview_data,
            user_changed, ranges, button_text, reference_info, curve_visible,
            markings>>

-----------------------------------------------------------------------------
(* Bounds of the model *)

\* most range widgets the container holds, and the longest "ranges" list
\* of a params mapping
MaxRanges == 2

-----------------------------------------------------------------------------
(* Class-level defaults and the spin box limits *)

ORDER_DEFAULT == 2
SCALING_DEFAULT == TRUE
OUTPUT_MODEL_DEFAULT == FALSE
minv == 0
maxv == 10
MINLIM_DEFAULT == 0
MAXLIM_DEFAULT == 1

-----------------------------------------------------------------------------
(* Values *)

Max(a, b) == IF a >= b THEN a ELSE b
Min(a, b) == IF a <= b THEN a ELSE b

SetMin(S) == CHOOSE x \in S : \A y \in S : x <= y
SetMax(S) == CHOOSE x \in S : \A y \in S : x >= y

\* Positions on the x axis
Pos == {MINLIM_DEFAULT, MAXLIM_DEFAULT}
\* Weights a params mapping may carry
Weights == {1, 2}

\* a table is known by its rows (reference) or by its x axis (preview data)
NoTable == [none |-> TRUE, rows |-> 0, x |-> {}]
Table(n, xs) == [none |-> FALSE, rows |-> n, x |-> xs]

\* references: None, an empty table, a table of two spectra
References == {NoTable, Table(0, {}), Table(2, Pos)}
\* preview data: None, and a table with x = {1}
PreviewData == {NoTable, Table(1, {MAXLIM_DEFAULT})}

\* entries of a "ranges" list: (min, max, weight) triples, and a malformed
\* entry that is a pair
GoodEntries == {<<MAXLIM_DEFAULT, MINLIM_DEFAULT, 2>>,
                <<MAXLIM_DEFAULT, MAXLIM_DEFAULT, 1>>}
BadEntry == <<MINLIM_DEFAULT, MAXLIM_DEFAULT>>

RECURSIVE SeqsUpTo(_, _)
SeqsUpTo(S, n) ==
    IF n = 0 THEN {<<>>}
    ELSE LET T == SeqsUpTo(S, n - 1)
         IN T \cup {Append(t, e) : t \in {u \in T : Len(u) = n - 1}, e \in S}

\* the "ranges" lists: triples only, or triples up to a first malformed
\* entry (what follows the first malformed entry is never read)
GoodLists == SeqsUpTo(GoodEntries, MaxRanges)
RangeLists ==
    GoodLists \cup {Append(t, BadEntry) : t \in {u \in GoodLists : Len(u) < MaxRanges}}

WellFormed(entries) == \A i \in 1..Len(entries) : Len(entries[i]) = 3

\* order values a params mapping may carry: inside and outside the spin range
OrderVals == {minv, maxv + 1}

\* flag values a params mapping may carry: the ones that are not the default
ScalingVals == {~SCALING_DEFAULT}
OutputModelVals == {~OUTPUT_MODEL_DEFAULT}

Keys == {"order", "scaling", "output_model", "ranges", "reference"}

\* A params mapping: `has` is its key set; a key that is absent holds a
\* placeholder that is never read.  mapping = FALSE is a params that is None.
MkParams(h, o, s, m, r, ref) ==
    [mapping |-> TRUE, has |-> h,
     order |-> IF "order" \in h THEN o ELSE 0,
     scaling |-> IF "scaling" \in h THEN s ELSE FALSE,
     output_model |-> IF "output_model" \in h THEN m ELSE FALSE,
     ranges |-> IF "ranges" \in h THEN r ELSE <<>>,
     reference |-> IF "reference" \in h THEN ref ELSE NoTable]

NoneParams ==
    [mapping |-> FALSE, has |-> {}, order |-> 0, scaling |-> FALSE,
     output_model |-> FALSE, ranges |-> <<>>, reference |-> NoTable]

NoArg == [mapping |-> FALSE, has |-> {"-"}, order |-> 0, scaling |-> FALSE,
          output_model |-> FALSE, ranges |-> <<>>, reference |-> NoTable]

ScalarKeys == {"order", "scaling", "output_model"}

AllParams(refs) ==
    {MkParams(h, o, s, m, r, ref) :
        h \in SUBSET Keys, o \in OrderVals, s \in ScalingVals,
        m \in OutputModelVals, r \in RangeLists, ref \in refs}

\* the mappings setParameters is given (the host passes no reference):
\* every subset of the scalar keys with a ranges list of at most one entry,
\* and every ranges list with none or all of the scalar keys; and None
EditorParams ==
    {p \in AllParams({NoTable}) :
        /\ "reference" \notin p.has
        /\ \/ Len(p.ranges) <= 1
           \/ p.has \cap ScalarKeys \in {{}, ScalarKeys}}
    \cup {NoneParams}

\* the mappings the host keeps for the step and hands to the class methods:
\* any keys, with or without a reference; and None
CodecParams == AllParams(References) \cup {NoneParams}

\* the mappings that leave the scalar options alone
RangeParams ==
    {p \in AllParams({NoTable}) : p.has \subseteq {"ranges"}} \cup {NoneParams}

\* params.get(key) or default: a value that is falsy gives the default
Get_orDefault(params, key, default) ==
    IF key \notin params.has THEN default
    ELSE IF key = "order" /\ params.order = 0 THEN default
    ELSE IF key = "scaling" /\ ~params.scaling THEN default
    ELSE IF key = "output_model" /\ ~params.output_model THEN default
    ELSE IF key = "ranges" /\ params.ranges = <<>> THEN default
    ELSE params[key]

\* params.get(key, default)
Get(params, key, default) ==
    IF key \in params.has THEN params[key] ELSE default

\* params is not None
Truthy_notNone(params) == params.mapping

\* bool(params)
Truthy(params) == params.mapping /\ params.has # {}

-----------------------------------------------------------------------------
(* Collaborators *)

\* PreviewMinMaxMixin.preview_min_max
preview_min_max(data) ==
    IF ~data.none /\ data.x # {}
    THEN [pmin |-> SetMin(data.x), pmax |-> SetMax(data.x)]
    ELSE [pmin |-> MINLIM_DEFAULT, pmax |-> MAXLIM_DEFAULT]

\* the plot items.  Line(i, w) is the line of edit w (0 the first, 1 the
\* second) of the i-th range widget of the container; Line(0, w) is the line
\* of a widget that is no longer in the container.
reference_curve == [kind |-> "curve", i |-> 0, w |-> 0]
Line(i, w) == [kind |-> "line", i |-> i, w |-> w]
OtherMarking == [kind |-> "other", i |-> 0, w |-> 0]

InSeq(x, s) == \E i \in 1..Len(s) : s[i] = x
RemoveFromSeq(x, s) == SelectSeq(s, LAMBDA y : y # x)

-----------------------------------------------------------------------------
(* Helpers of the editor *)

\* _set_button_text reading the count before the layout has changed
ButtonText_offByOne(count) ==
    IF count <= 1 THEN "Select Region" ELSE "Add Region"

\* _set_button_text
ButtonText(count) == IF count = 0 THEN "Select Region" ELSE "Add Region"

\* add_range_selection_ui: a new line of two XPosLineEdit (position 0 on
\* construction, defaults the preview limits)
NewRange(data) ==
    [min |-> 0, max |-> 0,
     dmin |-> preview_min_max(data).pmin, dmax |-> preview_min_max(data).pmax]

\* update_reference_info: the label text (without the number of spectra)
\* and the curve's visibility
ReferenceInfo(ref) ==
    IF ref.none \/ ref.rows = 0 THEN "Reference: missing!"
    ELSE IF ref.rows > 1 THEN "Reference: mean of spectra"
    ELSE "Reference: 1 spectrum"

CurveVisible(ref, scal) ==
    IF ref.none \/ ref.rows = 0 THEN FALSE ELSE scal

\* parameters() reading the first edit of each pair twice
parameters_firstEditTwice ==
    [order |-> order, scaling |-> scaling, output_model |-> output_model,
     ranges |-> [i \in 1..Len(ranges) |->
                    <<ranges[i].min, ranges[i].min, 1>>]]

\* parameters(): super().parameters() gives the controlled attributes, then
\* one [min, max, 1.0] per range widget
parameters ==
    [order |-> order, scaling |-> scaling, output_model |-> output_model,
     ranges |-> [i \in 1..Len(ranges) |->
                    <<ranges[i].min, ranges[i].max, 1>>]]

NoRet == [kind |-> "none"]

-----------------------------------------------------------------------------
(* Construction *)

Init ==
    /\ order = ORDER_DEFAULT
    /\ scaling = SCALING_DEFAULT
    /\ output_model = OUTPUT_MODEL_DEFAULT
    /\ reference = NoTable
    /\ preview_data = NoTable
    /\ user_changed = FALSE
    /\ ranges = <<>>
    /\ button_text = "Select Region"
    /\ reference_info = ""
    /\ curve_visible = TRUE
    /\ markings = <<>>
    /\ stored = NoArg
    /\ op = "__init__"
    /\ arg = NoArg
    /\ outcome = "ok"
    /\ ret = NoRet
    /\ emitted = 0

-----------------------------------------------------------------------------
(* User interaction *)

\* values the user sets in the spin box (minv..maxv)
SpinVals == {minv, ORDER_DEFAULT}

\* what a handler leaves behind: its name, its params argument, whether it
\* raised, what it returned and how often it emitted self.edited
Ran(name, params, out, result, signals) ==
    /\ op' = name
    /\ arg' = params
    /\ outcome' = out
    /\ ret' = result
    /\ emitted' = signals
    /\ UNCHANGED stored

\* gui.spin(..., "order", minv=0, maxv=10, callback=self.edited.emit)
SpinOrder(v) ==
    /\ v # order
    /\ order' = v
    /\ Ran("spin_order", NoArg, "ok", NoRet, 1)
    /\ UNCHANGED <<scaling, output_model, reference, preview_data,
                   user_changed, ranges, button_text, reference_info,
                   curve_visible, markings>>

\* gui.checkBox(..., "scaling", callback=self.edited.emit)
ToggleScaling ==
    /\ scaling' = ~scaling
    /\ Ran("check_scaling", NoArg, "ok", NoRet, 1)
    /\ UNCHANGED <<order, output_model, reference, preview_data,
                   user_changed, ranges, button_text, reference_info,
                   curve_visible, markings>>

\* gui.checkBox(..., "output_model", callback=self.edited.emit)
ToggleOutputModel ==
    /\ output_model' = ~output_model
    /\ Ran("check_output_model", NoArg, "ok", NoRet, 1)
    /\ UNCHANGED <<order, scaling, reference, preview_data, user_changed,
                   ranges, button_text, reference_info, curve_visible,
                   markings>>

\* the user types a position into one XPosLineEdit of a range (w = 0 the
\* first edit, w = 1 the second); w.edited is connected to self.edited
EditPosition(i, w, v) ==
    /\ i \in 1..Len(ranges)
    /\ v # (IF w = 0 THEN ranges[i].min ELSE ranges[i].max)
    /\ ranges' = IF w = 0 THEN [ranges EXCEPT ![i].min = v]
                 ELSE [ranges EXCEPT ![i].max = v]
    /\ Ran("edit_position", NoArg, "ok", NoRet, 1)
    /\ UNCHANGED <<order, scaling, output_model, reference, preview_data,
                   user_changed, button_text, reference_info, curve_visible,
                   markings>>

-----------------------------------------------------------------------------
(* Ranges *)

\* add_range_selection_ui: the new line goes last in the container
add_range_selection_ui(rs, data) == Append(rs, NewRange(data))

\* add_range_selection
AddRangeSelection ==
    /\ Len(ranges) < MaxRanges
    /\ LET mm == preview_min_max(preview_data)
           rs == add_range_selection_ui(ranges, preview_data)
       IN ranges' = [rs EXCEPT ![Len(rs)].min = mm.pmin,
                               ![Len(rs)].max = mm.pmax]
    /\ button_text' = ButtonText(Len(ranges'))
    /\ Ran("add_range_selection", NoArg, "ok", NoRet, 1)
    /\ UNCHANGED <<order, scaling, output_model, reference, preview_data,
                   user_changed, reference_info, curve_visible, markings>>

\* ranges_box.layout().removeWidget(box), box the i-th line
RemoveWidget(rs, i) ==
    [j \in 1..(Len(rs) - 1) |-> IF j < i THEN rs[j] ELSE rs[j + 1]]

\* the markings once the i-th line has left the container: a line of that
\* widget is the line of a widget outside the container, the lines of the
\* widgets after it are one place up
Renumbered(ms, i) ==
    [j \in 1..Len(ms) |->
        IF ms[j].kind # "line" \/ ms[j].i < i THEN ms[j]
        ELSE IF ms[j].i = i THEN Line(0, ms[j].w)
        ELSE Line(ms[j].i - 1, ms[j].w)]

\* the loop of delete_range stopping after the first edit of the pair
RemoveSelectionLines_firstOnly(ms, i) == RemoveFromSeq(Line(i, 0), ms)

\* the loop of delete_range: remove_marking of each line of the pair that
\* is in_markings
RemoveSelectionLines(ms, i) ==
    RemoveFromSeq(Line(i, 1), RemoveFromSeq(Line(i, 0), ms))

\* delete_range(box), box the i-th line of the container
DeleteRange(i) ==
    /\ i \in 1..Len(ranges)
    /\ ranges' = RemoveWidget(ranges, i)
    /\ button_text' = ButtonText(Len(ranges'))
    /\ markings' = Renumbered(RemoveSelectionLines(markings, i), i)
    /\ Ran("delete_range", NoArg, "ok", NoRet, 1)
    /\ UNCHANGED <<order, scaling, output_model, reference, preview_data,
                   user_changed, reference_info, curve_visible>>

\* the lines of the range widgets, in container order (_range_widgets)
RangeLines(rs) ==
    [j \in 1..(2 * Len(rs)) |-> Line((j + 1) \div 2, (j + 1) % 2)]

\* add_marking of each item of `items` that is not among the markings
RECURSIVE AddMarkings(_, _)
AddMarkings(ms, items) ==
    IF items = <<>> THEN ms
    ELSE AddMarkings(IF InSeq(Head(items), ms) THEN ms
                     ELSE Append(ms, Head(items)), Tail(items))

\* clear_markings that leaves the markings on the plot
clear_markings_keeps(ms) == ms

\* curveplot.clear_markings()
clear_markings(ms) == <<>>

\* activateOptions
ActivateOptions ==
    /\ markings' = AddMarkings(clear_markings(markings),
                               <<reference_curve>> \o RangeLines(ranges))
    /\ Ran("activateOptions", NoArg, "ok", NoRet, 0)
    /\ UNCHANGED <<order, scaling, output_model, reference, preview_data,
                   user_changed, ranges, button_text, reference_info,
                   curve_visible>>

\* another editor of the host is activated: it clears the plot's markings
\* and adds its own
OtherEditorActivated ==
    /\ markings # <<OtherMarking>>
    /\ markings' = <<OtherMarking>>
    /\ Ran("other_editor", NoArg, "ok", NoRet, 0)
    /\ UNCHANGED <<order, scaling, output_model, reference, preview_data,
                   user_changed, ranges, button_text, reference_info,
                   curve_visible>>

-----------------------------------------------------------------------------
(* The parameter codec *)

\* the loop that forgets pair[1].position = rhigh
RECURSIVE SetRangeLoop_noHigh(_, _, _, _, _)
SetRangeLoop_noHigh(rs, entries, i, k, data) ==
    IF i > Len(entries) THEN [ranges |-> rs, outcome |-> "ok"]
    ELSE IF Len(entries[i]) # 3 THEN [ranges |-> rs, outcome |-> "error"]
    ELSE LET rmin == entries[i][1]
             rs1 == IF i > k THEN Append(rs, NewRange(data)) ELSE rs
             rs2 == [rs1 EXCEPT ![i].min = rmin]
         IN SetRangeLoop_noHigh(rs2, entries, i + 1, k, data)

\* the loop that skips an entry that is not a 3-sequence
RECURSIVE SetRangeLoop_skipsMalformed(_, _, _, _, _)
SetRangeLoop_skipsMalformed(rs, entries, i, k, data) ==
    IF i > Len(entries) THEN [ranges |-> rs, outcome |-> "ok"]
    ELSE IF Len(entries[i]) # 3
    THEN SetRangeLoop_skipsMalformed(rs, entries, i + 1, k, data)
    ELSE LET rmin == entries[i][1]
             rhigh == entries[i][2]
             rs1 == IF i > k THEN Append(rs, NewRange(data)) ELSE rs
             rs2 == [rs1 EXCEPT ![Len(rs1)].min = rmin, ![Len(rs1)].max = rhigh]
         IN SetRangeLoop_skipsMalformed(rs2, entries, i + 1, k, data)

\* the loop of _set_range_parameters from entry i on; k = len(rw), the
\* number of range widgets when the loop started.  Unpacking an entry that
\* is not a 3-sequence raises.
RECURSIVE SetRangeLoop(_, _, _, _, _)
SetRangeLoop(rs, entries, i, k, data) ==
    IF i > Len(entries) THEN [ranges |-> rs, outcome |-> "ok"]
    ELSE IF Len(entries[i]) # 3 THEN [ranges |-> rs, outcome |-> "error"]
    ELSE LET rmin == entries[i][1]
             rhigh == entries[i][2]
             rs1 == IF i > k THEN add_range_selection_ui(rs, data) ELSE rs
             rs2 == [rs1 EXCEPT ![i].min = rmin, ![i].max = rhigh]
         IN SetRangeLoop(rs2, entries, i + 1, k, data)

\* _set_range_parameters that first drops the widgets beyond the list
_set_range_parameters_truncating(params, rs, data) ==
    LET entries == Get(params, "ranges", <<>>)
        kept == SubSeq(rs, 1, Min(Len(rs), Len(entries)))
    IN SetRangeLoop(kept, entries, 1, Len(kept), data)

\* _set_range_parameters
_set_range_parameters(params, rs, data) ==
    SetRangeLoop(rs, Get(params, "ranges", <<>>), 1, Len(rs), data)

\* setParameters
SetParameters(params) ==
    /\ Max(Len(ranges), Len(params.ranges)) <= MaxRanges
    /\ IF ~params.mapping
       THEN \* None has no get(): line 138 raises
            /\ Ran("setParameters", params, "error", NoRet, 0)
            /\ UNCHANGED editor
       ELSE LET r == _set_range_parameters(params, ranges, preview_data)
            IN /\ user_changed' = (IF Truthy(params) THEN TRUE ELSE user_changed)
               /\ order' = Get(params, "order", ORDER_DEFAULT)
               /\ scaling' = Get(params, "scaling", SCALING_DEFAULT)
               /\ output_model' = Get(params, "output_model", OUTPUT_MODEL_DEFAULT)
               /\ ranges' = r.ranges
               /\ button_text' = IF Len(r.ranges) > Len(ranges)
                                 THEN ButtonText(Len(r.ranges)) ELSE button_text
               /\ IF r.outcome = "ok"
                  THEN /\ reference_info' = ReferenceInfo(reference)
                       /\ curve_visible' = CurveVisible(reference, scaling')
                  ELSE UNCHANGED <<reference_info, curve_visible>>
               /\ Ran("setParameters", params, r.outcome, NoRet, 0)
               /\ UNCHANGED <<reference, preview_data, markings>>

\* parameters()
Parameters ==
    /\ Ran("parameters", NoArg, "ok", parameters, 0)
    /\ UNCHANGED editor

\* set_reference_data
SetReferenceData(ref) ==
    /\ reference' = ref
    /\ reference_info' = ReferenceInfo(ref)
    /\ curve_visible' = CurveVisible(ref, scaling)
    /\ Ran("set_reference_data", NoArg, "ok", NoRet, 0)
    /\ UNCHANGED <<order, scaling, output_model, preview_data, user_changed,
                   ranges, button_text, markings>>

\* set_preview_data: the defaults of every range follow the data; the
\* assignments pair[0] = pmin, pair[1] = pmax rebind the entries of a list
\* that _range_widgets built and leave the edits' positions alone
SetPreviewData(data) ==
    /\ preview_data' = data
    /\ ranges' = [i \in 1..Len(ranges) |->
                    [ranges[i] EXCEPT !.dmin = preview_min_max(data).pmin,
                                      !.dmax = preview_min_max(data).pmax]]
    /\ Ran("set_preview_data", NoArg, "ok", NoRet,
           IF ~user_changed THEN 1 ELSE 0)
    /\ UNCHANGED <<order, scaling, output_model, reference, user_changed,
                   button_text, reference_info, curve_visible, markings>>

-----------------------------------------------------------------------------
(* The class methods *)

\* no weights (None)
NoWeights == [kind |-> "None", ranges |-> <<>>]

\* ranges_to_weight_table: the weight table of a list of ranges
ranges_to_weight_table(rs) == [kind |-> "table", ranges |-> rs]

\* _compute_weights that converts whenever the key is there
_compute_weights_keyPresent(params) ==
    IF "ranges" \in params.has
    THEN [weights |-> ranges_to_weight_table(params.ranges),
          conversions |-> <<params.ranges>>]
    ELSE [weights |-> NoWeights, conversions |-> <<>>]

\* _compute_weights: the weights, and the calls made to the conversion
_compute_weights(params) ==
    LET rs == Get(params, "ranges", <<>>)
    IN IF rs # <<>>
       THEN [weights |-> ranges_to_weight_table(rs), conversions |-> <<rs>>]
       ELSE [weights |-> NoWeights, conversions |-> <<>>]

\* lambda data: data[:0]
EmptyTable(data) == SubSeq(data, 1, 0)

\* createinstance that takes a reference of None for a reference
createinstance_absentOnly(params) ==
    LET cw == _compute_weights(params)
    IN IF "reference" \notin params.has
       THEN [transform |-> [kind |-> "lambda"],
             conversions |-> cw.conversions, constructed |-> 0]
       ELSE [transform |-> [kind |-> "EMSC", reference |-> params.reference,
                            weights |-> cw.weights,
                            order |-> Get(params, "order", ORDER_DEFAULT),
                            scaling |-> Get(params, "scaling", SCALING_DEFAULT),
                            output_model |->
                                Get(params, "output_model", OUTPUT_MODEL_DEFAULT)],
             conversions |-> cw.conversions, constructed |-> 1]

\* createinstance as an instance method that falls back on the editor's
\* own options
createinstance_fromEditor(params) ==
    LET cw == _compute_weights(params)
        ref == Get(params, "reference", NoTable)
    IN IF ref.none
       THEN [transform |-> [kind |-> "lambda"],
             conversions |-> cw.conversions, constructed |-> 0]
       ELSE [transform |-> [kind |-> "EMSC", reference |-> ref,
                            weights |-> cw.weights,
                            order |-> Get(params, "order", order),
                            scaling |-> Get(params, "scaling", scaling),
                            output_model |->
                                Get(params, "output_model", output_model)],
             conversions |-> cw.conversions, constructed |-> 1]

\* createinstance: the transform, the calls made to the conversion and the
\* number of calls of the EMSC constructor
createinstance(params) ==
    LET o == Get(params, "order", ORDER_DEFAULT)
        s == Get(params, "scaling", SCALING_DEFAULT)
        m == Get(params, "output_model", OUTPUT_MODEL_DEFAULT)
        cw == _compute_weights(params)
        ref == Get(params, "reference", NoTable)
    IN IF ref.none
       THEN [transform |-> [kind |-> "lambda"],
             conversions |-> cw.conversions, constructed |-> 0]
       ELSE [transform |-> [kind |-> "EMSC", reference |-> ref,
                            weights |-> cw.weights, order |-> o,
                            scaling |-> s, output_model |-> m],
             conversions |-> cw.conversions, constructed |-> 1]

\* data tables a transform is applied to, as their rows
DataTables == {<<>>, <<1>>, <<1, 2>>}

\* the host calls EMSCEditor._compute_weights(stored); what the conversion
\* does with an entry that is no triple is its own affair
ComputeWeights ==
    /\ WellFormed(stored.ranges)
    /\ IF ~stored.mapping
       THEN Ran("_compute_weights", stored, "error", NoRet, 0)
       ELSE Ran("_compute_weights", stored, "ok", _compute_weights(stored), 0)
    /\ UNCHANGED editor

\* the host calls EMSCEditor.createinstance(stored)
CreateInstance ==
    /\ WellFormed(stored.ranges)
    /\ IF ~stored.mapping
       THEN Ran("createinstance", stored, "error", NoRet, 0)
       ELSE Ran("createinstance", stored, "ok", createinstance(stored), 0)
    /\ UNCHANGED editor

\* the host applies the transform createinstance returned without a
\* reference to a data table
ApplyTransform(data) ==
    /\ op = "createinstance" /\ outcome = "ok"
    /\ ret.transform.kind = "lambda"
    /\ Ran("transform", stored, "ok",
           [transform |-> ret.transform, data |-> data,
            result |-> EmptyTable(data)], 0)
    /\ UNCHANGED editor

\* the host hands the stored mapping to the editor
LoadStored == SetParameters(stored)

-----------------------------------------------------------------------------
\* the editor's form: the scalar options, the ranges and the codec
Next ==
    \/ \E v \in SpinVals : SpinOrder(v)
    \/ ToggleScaling
    \/ ToggleOutputModel
    \/ \E i \in 1..MaxRanges, w \in {0, 1}, v \in Pos : EditPosition(i, w, v)
    \/ AddRangeSelection
    \/ \E i \in 1..MaxRanges : DeleteRange(i)
    \/ \E params \in EditorParams : SetParameters(params)
    \/ Parameters
    \/ \E data \in PreviewData : SetPreviewData(data)

Spec == Init /\ [][Next]_vars

\* the host pipeline: it keeps one params mapping, loads it into the editor
\* and hands it to the class methods, while the user edits the form
CodecInit ==
    /\ order = ORDER_DEFAULT
    /\ scaling = SCALING_DEFAULT
    /\ output_model = OUTPUT_MODEL_DEFAULT
    /\ reference = NoTable
    /\ preview_data = NoTable
    /\ user_changed = FALSE
    /\ ranges = <<>>
    /\ button_text = "Select Region"
    /\ reference_info = ""
    /\ curve_visible = TRUE
    /\ markings = <<>>
    /\ stored \in CodecParams
    /\ op = "__init__"
    /\ arg = NoArg
    /\ outcome = "ok"
    /\ ret = NoRet
    /\ emitted = 0

CodecNext ==
    \/ LoadStored
    \/ Parameters
    \/ ComputeWeights
    \/ CreateInstance
    \/ \E data \in DataTables : ApplyTransform(data)
    \/ \E v \in SpinVals : SpinOrder(v)
    \/ ToggleScaling
    \/ ToggleOutputModel

CodecSpec == CodecInit /\ [][CodecNext]_vars

\* the editor in the host's window: the ranges, the plot's markings, the
\* reference and the preview data
PlotNext ==
    \/ AddRangeSelection
    \/ \E i \in 1..MaxRanges : DeleteRange(i)
    \/ ActivateOptions
    \/ OtherEditorActivated
    \/ \E params \in RangeParams : SetParameters(params)
    \/ Parameters
    \/ \E ref \in References : SetReferenceData(ref)
    \/ \E data \in PreviewData : SetPreviewData(data)

PlotSpec == Init /\ [][PlotNext]_vars

-----------------------------------------------------------------------------
(* Properties *)

\* a params mapping with all four keys, order within the spin range and
\* every ranges entry a triple
ValidParams(params) ==
    /\ params.mapping
    /\ {"order", "scaling", "output_model", "ranges"} \subseteq params.has
    /\ params.order \in 0..10
    /\ WellFormed(params.ranges)

\* what parameters() reports for the range widgets rs
Reported(rs) == [i \in 1..Len(rs) |-> <<rs[i].min, rs[i].max, 1>>]

\* C1 as stated: after setParameters(params) with a valid mapping,
\* parameters() returns the order, scaling, output_model and ranges of params.
C1_RoundTrip ==
    (op = "setParameters" /\ ValidParams(arg)) =>
        /\ parameters.order = arg.order
        /\ parameters.scaling = arg.scaling
        /\ parameters.output_model = arg.output_model
        /\ parameters.ranges = arg.ranges

\* C1 amended: after setParameters(params) with a valid mapping, parameters()
\* returns the order, scaling and output_model of params, and as ranges the
\* entries of params with every weight replaced by 1.0, followed by the
\* ranges the editor held before the call beyond the length of params' list.
C1_RoundTripAmended ==
    [][(op' = "setParameters" /\ ValidParams(arg')) =>
        /\ parameters'.order = arg'.order
        /\ parameters'.scaling = arg'.scaling
        /\ parameters'.output_model = arg'.output_model
        /\ parameters'.ranges =
             [i \in 1..Max(Len(ranges), Len(arg'.ranges)) |->
                IF i <= Len(arg'.ranges)
                THEN <<arg'.ranges[i][1], arg'.ranges[i][2], 1>>
                ELSE <<ranges[i].min, ranges[i].max, 1>>]]_vars

\* a valid mapping with a weight that is not 1 was loaded into an editor that
\* held more ranges than the mapping lists
C1_Witness ==
    /\ op = "setParameters" /\ ValidParams(arg)
    /\ Len(arg.ranges) = 1 /\ arg.ranges[1][3] # 1
    /\ Len(ranges) > Len(arg.ranges)
    /\ order = 0

C3_Constructs ==
    (op = "createinstance" /\ arg.mapping
        /\ ~Get(arg, "reference", NoTable).none) =>
      /\ outcome = "ok"
      /\ ret.constructed = 1
      /\ ret.transform =
           [kind |-> "EMSC",
            reference |-> arg.reference,
            weights |-> IF "ranges" \in arg.has /\ arg.ranges # <<>>
                        THEN ranges_to_weight_table(arg.ranges)
                        ELSE NoWeights,
            order |-> IF "order" \in arg.has THEN arg.order ELSE 2,
            scaling |-> IF "scaling" \in arg.has THEN arg.scaling ELSE TRUE,
            output_model |-> IF "output_model" \in arg.has
                             THEN arg.output_model ELSE FALSE]

\* EMSC was constructed from a mapping without order, scaling and
\* output_model while the editor held other values than the defaults
C3_Witness ==
    /\ op = "createinstance" /\ arg.mapping /\ ~arg.reference.none
    /\ arg.has \cap ScalarKeys = {}
    /\ arg.ranges # <<>>
    /\ order # 2 /\ ~scaling /\ output_model

\* C4: _compute_weights(params) returns None without calling the conversion
\* when "ranges" is absent or empty, and otherwise the conversion of exactly
\* params' ranges list, called once.
C4_ComputeWeights ==
    (op = "_compute_weights" /\ arg.mapping) =>
      /\ outcome = "ok"
      /\ IF "ranges" \notin arg.has \/ Len(arg.ranges) = 0
         THEN ret.weights = NoWeights /\ ret.conversions = <<>>
         ELSE /\ ret.weights = ranges_to_weight_table(arg.ranges)
              /\ ret.conversions = <<arg.ranges>>

\* the weights of a list of two different ranges were computed
C4_Witness ==
    /\ op = "_compute_weights" /\ outcome = "ok"
    /\ Len(arg.ranges) = 2 /\ arg.ranges[1] # arg.ranges[2]
    /\ ret.weights.kind = "table"

\* C5: after setParameters(params), each of order, scaling, output_model
\* holds the value params supplies, or the class default (2, True, False)
\* when params lacks the key, whatever it held before.
C5_Defaults ==
    (op = "setParameters" /\ arg.mapping) =>
      /\ order = (IF "order" \in arg.has THEN arg.order ELSE 2)
      /\ scaling = (IF "scaling" \in arg.has THEN arg.scaling ELSE TRUE)
      /\ output_model = (IF "output_model" \in arg.has
                         THEN arg.output_model ELSE FALSE)

\* a mapping that supplies scaling and order 0 but no output_model was loaded
C5_Witness ==
    /\ op = "setParameters" /\ arg.mapping
    /\ arg.has \cap ScalarKeys = {"order", "scaling"}
    /\ arg.order = 0 /\ ~arg.scaling
    /\ order = 0 /\ ~scaling /\ ~output_model

\* C6: user_changed is False on construction; a step makes it True exactly
\* when it is setParameters with a non-empty mapping; every other step,
\* setParameters with an empty mapping included, leaves it as it was, so it
\* never goes back to False.
C6_UserChanged ==
    /\ (op = "__init__" => ~user_changed)
    /\ [][user_changed' =
            (user_changed \/ (op' = "setParameters" /\ arg'.mapping
                                /\ arg'.has # {}))]_vars

\* setParameters with an empty mapping ran on an editor whose user_changed
\* an earlier call had set
C6_Witness ==
    /\ op = "setParameters" /\ arg.mapping /\ arg.has = {}
    /\ user_changed

\* C7: parameters()["ranges"] holds one [min, max, 1.0] per range widget of
\* the container, in container order, min and max the positions of the
\* widget's two edits, also after setParameters was given another weight.
C7_ReportedRanges ==
    /\ Len(parameters.ranges) = Len(ranges)
    /\ \A i \in 1..Len(ranges) :
          parameters.ranges[i] = <<ranges[i].min, ranges[i].max, 1>>
    /\ op = "parameters" => ret.ranges = parameters.ranges

\* parameters() ran on two ranges with different positions
C7_Witness ==
    /\ op = "parameters"
    /\ Len(ranges) = 2
    /\ ranges[1].min # ranges[1].max
    /\ <<ranges[1].min, ranges[1].max>> # <<ranges[2].min, ranges[2].max>>
    /\ ret.ranges = <<<<ranges[1].min, ranges[1].max, 1>>,
                      <<ranges[2].min, ranges[2].max, 1>>>>

\* C8 as stated: setParameters, parameters, _compute_weights and
\* createinstance never end in an error, whatever params is.
C8_NeverErrors ==
    op \in {"setParameters", "parameters", "_compute_weights", "createinstance"}
        => outcome = "ok"

\* C8 amended: the codec completes without error for every params mapping
\* whose ranges entries are all (min, max, weight) triples, each absent key
\* taking its default; setParameters raises for a ranges entry that is not
\* a 3-element sequence, and every codec function that takes params raises
\* for a params that is None.
C8_ErrorsOnlyMalformed ==
    /\ op = "setParameters" =>
          /\ outcome = "ok" <=> (arg.mapping /\ WellFormed(arg.ranges))
          /\ arg.mapping =>
                /\ "order" \notin arg.has => order = 2
                /\ "scaling" \notin arg.has => scaling = TRUE
                /\ "output_model" \notin arg.has => output_model = FALSE
    /\ op \in {"_compute_weights", "createinstance"} =>
          (outcome = "ok" <=> arg.mapping)
    /\ op = "parameters" => outcome = "ok"

\* setParameters raised on the second entry of a ranges list after it had
\* applied the first
C8_Witness ==
    /\ op = "setParameters" /\ outcome = "error" /\ arg.mapping
    /\ Len(arg.ranges) = 2 /\ Len(arg.ranges[2]) # 3
    /\ Len(ranges) = 1

\* C9: the editor's order is an integer in 0..10 in every reachable state.
C9_OrderInRange == order \in 0..10

\* C10: setParameters removes no range widget: with k ranges before and n
\* entries in params' ranges, the editor then holds max(k, n) ranges, the
\* first n at the positions of the entries, the others where they were.
C10_KeepsRanges ==
    [][(op' = "setParameters" /\ outcome' = "ok") =>
        LET k == Len(ranges)
            n == IF "ranges" \in arg'.has THEN Len(arg'.ranges) ELSE 0
        IN /\ Len(ranges') = Max(k, n)
           /\ \A i \in 1..n : /\ ranges'[i].min = arg'.ranges[i][1]
                              /\ ranges'[i].max = arg'.ranges[i][2]
           /\ \A i \in (n + 1)..k : /\ ranges'[i].min = ranges[i].min
                                    /\ ranges'[i].max = ranges[i].max]_vars

\* a list of one entry was loaded into an editor of two ranges, and the
\* second range is not where the entry is
C10_Witness ==
    /\ op = "setParameters" /\ outcome = "ok"
    /\ Len(arg.ranges) = 1 /\ Len(ranges) = 2
    /\ <<ranges[2].min, ranges[2].max>> # <<arg.ranges[1][1], arg.ranges[1][2]>>

\* C11: set_preview_data(data) on an editor whose user_changed is False
\* moves both edits of every range to the preview minimum and maximum of
\* data, so that parameters() reports [pmin, pmax, 1.0] for each, and emits
\* edited once; with user_changed True it only renews the ranges' defaults,
\* leaves the positions alone and emits nothing.
C11_PreviewPositions ==
    [][op' = "set_preview_data" =>
        LET mm == preview_min_max(preview_data')
        IN /\ Len(ranges') = Len(ranges)
           /\ \A i \in 1..Len(ranges') : /\ ranges'[i].dmin = mm.pmin
                                         /\ ranges'[i].dmax = mm.pmax
           /\ IF ~user_changed
              THEN /\ \A i \in 1..Len(ranges') :
                         /\ ranges'[i].min = mm.pmin
                         /\ ranges'[i].max = mm.pmax
                         /\ parameters'.ranges[i] = <<mm.pmin, mm.pmax, 1>>
                   /\ emitted' = 1
              ELSE /\ \A i \in 1..Len(ranges') :
                         /\ ranges'[i].min = ranges[i].min
                         /\ ranges'[i].max = ranges[i].max
                   /\ emitted' = 0]_vars

\* the lines of widgets that are no longer in the container
StaleLines == {Line(0, 0), Line(0, 1)}

\* C12: delete_range(box) for a range of the editor takes exactly that range
\* out: one range fewer, the others in their order and at their positions,
\* edited emitted; and from then on, whatever runs later, parameters()
\* reports the ranges of the container only and no line of a deleted range
\* is among the plot's markings.
C12_DeletedForGood ==
    /\ [](/\ \A j \in 1..Len(markings) : markings[j] \notin StaleLines
          /\ Len(parameters.ranges) = Len(ranges))
    /\ [][op' = "delete_range" =>
            /\ Len(ranges') = Len(ranges) - 1
            /\ emitted' = 1
            /\ \E i \in 1..Len(ranges) :
                  /\ \A j \in 1..(i - 1) : ranges'[j] = ranges[j]
                  /\ \A j \in i..Len(ranges') : ranges'[j] = ranges[j + 1]
                  /\ parameters'.ranges =
                        [j \in 1..Len(ranges') |->
                            IF j < i
                            THEN <<ranges[j].min, ranges[j].max, 1>>
                            ELSE <<ranges[j + 1].min, ranges[j + 1].max, 1>>]
                  /\ \A j \in 1..Len(markings') :
                        markings'[j] \notin StaleLines]_vars

\* one of two ranges whose lines were on the plot was deleted: the plot
\* keeps the reference curve and the two lines of the range that is left
C12_Witness ==
    /\ op = "delete_range" /\ emitted = 1
    /\ Len(ranges) = 1
    /\ markings = <<reference_curve, Line(1, 0), Line(1, 1)>>

\* C13: right after activateOptions() the plot's markings are the
\* editor's reference curve and the two lines of every range of the
\* container, each once, and nothing else, whatever was marked before.
C13_ActivatedMarkings ==
    op = "activateOptions" =>
      /\ Len(markings) = 1 + 2 * Len(ranges)
      /\ {markings[j] : j \in 1..Len(markings)} =
            {reference_curve} \cup
            {Line(i, w) : i \in 1..Len(ranges), w \in {0, 1}}

\* activateOptions ran on an editor of two ranges
C13_Witness ==
    /\ op = "activateOptions"
    /\ Len(ranges) = 2
    /\ Len(markings) = 5
    /\ \A j \in 1..Len(markings) : markings[j] # OtherMarking

\* C14: the range button reads "Select Region" exactly when the editor
\* holds no range, and "Add Region" otherwise.
C14_ButtonText ==
    /\ button_text \in {"Select Region", "Add Region"}
    /\ button_text = "Select Region" <=> Len(ranges) = 0

\* the last range was deleted and the button went back to "Select Region"
C14_Witness ==
    /\ op = "delete_range"
    /\ Len(ranges) = 0
    /\ button_text = "Select Region"

====
